---- MODULE Spec2Model ----
(***************************************************************************)
(* design-to-code: a CLI that chains a design model (GeminiService) and a  *)
(* code model (ClaudeService) and writes the generated files to disk.      *)
(*                                                                         *)
(* The module holds these state machines over one set of variables:        *)
(*   SpecExtract  the brace-matching JSON extraction, as a pure function   *)
(*                applied to every response text up to MaxLen characters;  *)
(*   Spec         the two services: construction, the requests and the     *)
(*                delegated external-agent call (callClaudeCode);          *)
(*   SpecPrompt   the code-generation prompt (getFrameworkInstructions);   *)
(*   SpecSave     the output writer saveOutput on a small file system;     *)
(*   SpecLive     the delegated call alone, with the timeouts taken;       *)
(*   SpecCli      the commands: their steps, exits and calls in order;     *)
(*   SpecJson     a design saved with saveJson, read back and parsed;      *)
(*   SpecTwo      two processes in callClaudeCode sharing os.tmpdir();     *)
(*   SpecRefactor `code refactor` on a small file system.                  *)
(* A specification leaves the variables of the others at their initial     *)
(* values.                                                                 *)
(***************************************************************************)
EXTENDS Naturals, Integers, Sequences, FiniteSets, TLC

VARIABLES
    exText,      \* SpecExtract: the response text handed to the extraction
    exDone,      \* SpecExtract: whether the extraction has run
    exResult,    \* SpecExtract: what each operation's extraction returned or threw
    env,         \* Spec: process.env, fixed when the process starts
    gemini,      \* Spec: the GeminiService object's fields
    claude,      \* Spec: the ClaudeService object's fields
    req,         \* Spec: the request in flight: operation, position, text, result
    io,          \* Spec: what the request has done outside the process so far
    cc,          \* Spec: callClaudeCode's locals and the secondary invocation
    tmpFiles,    \* Spec: the prompt files that exist in os.tmpdir()
    requests,    \* Spec: how many requests the process has started
    prInput,     \* SpecPrompt: the (design, framework) handed to generateCode
    prPrompt,    \* SpecPrompt: the prompt generateCode built
    fs,          \* SpecSave: the file system, path -> directory, file or nothing
    save,        \* SpecSave: saveOutput's arguments and position
    cli,         \* SpecCli: the command that runs, its position, exit and events
    rt,          \* SpecJson: the design saved and read back, and the position
    clock,       \* SpecTwo: Date.now(), in milliseconds
    tmp,         \* SpecTwo: the files of os.tmpdir(), name -> content
    procs,       \* SpecTwo: the two processes in callClaudeCode
    rf           \* SpecRefactor: `code refactor`: its options, position and exit

exVars == <<exText, exDone, exResult>>
svcVars == <<env, gemini, claude, req, io, cc, tmpFiles, requests>>
prVars == <<prInput, prPrompt>>
fsVars == <<fs, save>>
cliVars == <<cli>>
jsonVars == <<rt>>
twoVars == <<clock, tmp, procs>>
rfVars == <<rf>>

(***************************************************************************)
(* Text.  A text is a sequence of characters.  The alphabet of the texts    *)
(* handed to the extraction is what it takes to write a JSON object with   *)
(* one member, plus one prose character.                                   *)
(***************************************************************************)
MaxLen == 7

LBrace == "{"
RBrace == "}"
Quote == "\""
Colon == ":"
Prose == "x"

Alphabet == {LBrace, RBrace, Quote, Colon, Prose}

TextsOver(A, n) == UNION {[1..k -> A] : k \in 0..n}

\* String.prototype.indexOf / lastIndexOf, 1-based, 0 when absent.
IndexOf(s, c) ==
    IF \E i \in 1..Len(s) : s[i] = c
    THEN CHOOSE i \in 1..Len(s) : s[i] = c /\ \A j \in 1..(i-1) : s[j] # c
    ELSE 0

LastIndexOf(s, c) ==
    IF \E i \in 1..Len(s) : s[i] = c
    THEN CHOOSE i \in 1..Len(s) : s[i] = c /\ \A j \in (i+1)..Len(s) : s[j] # c
    ELSE 0

(***************************************************************************)
(* responseText.match(/\{[\s\S]*\}/): the leftmost match, greedy, so from  *)
(* the first "{" through the last "}" when that one comes later; null      *)
(* (found = FALSE) when no "{" is followed by a "}".                       *)
(***************************************************************************)
NoMatch == [found |-> FALSE, span |-> <<>>]

MatchNonGreedy(s) ==
    LET a == IndexOf(s, LBrace)
        b == IF a = 0 THEN 0 ELSE a + IndexOf(SubSeq(s, a + 1, Len(s)), RBrace)
    IN  IF a # 0 /\ b > a
        THEN [found |-> TRUE, span |-> SubSeq(s, a, b)]
        ELSE NoMatch

BraceMatch(s) ==
    LET a == IndexOf(s, LBrace)
        b == LastIndexOf(s, RBrace)
    IN  IF a # 0 /\ b > a
        THEN [found |-> TRUE, span |-> SubSeq(s, a, b)]
        ELSE NoMatch

(***************************************************************************)
(* JSON.parse, for the values the model uses: a value is a string, an      *)
(* object, an array, true or null; a string is a quote, characters, a      *)
(* quote, where a quote, a backslash and a newline inside are written      *)
(* \", \\ and \n (the other escapes are left out) and a bare newline is    *)
(* not allowed; an object is { } or { string : value , ... }; an array is  *)
(* [ ] or [ value , ... ]; white space may stand between the tokens.       *)
(* ParseValue(s, i) parses the value that starts at s[i]: ok, the position *)
(* after it, and the value.                                                *)
(***************************************************************************)
Comma == ","
Space == " "
Newline == "\n"
Backslash == "\\"
LetterN == "n"
LBracket == "["
RBracket == "]"
TrueText == <<"t", "r", "u", "e">>
NullText == <<LetterN, "u", "l", "l">>
WhiteSpace == {Space, Newline}

ParseFail == [ok |-> FALSE, next |-> 0, val |-> [kind |-> "none", str |-> <<>>, members |-> <<>>]]

\* A value: its kind, a string's characters, and an object's members in
\* the order of their keys' insertion (an array's items, with empty keys).
JStr(content) == [kind |-> "string", str |-> content, members |-> <<>>]
JObj(members) == [kind |-> "object", str |-> <<>>, members |-> members]
JArr(items) ==
    [kind |-> "array", str |-> <<>>,
     members |-> [i \in 1..Len(items) |-> [key |-> <<>>, value |-> items[i]]]]
JTrue == [kind |-> "true", str |-> <<>>, members |-> <<>>]
JNull == [kind |-> "null", str |-> <<>>, members |-> <<>>]

\* The first position at or after i that holds no white space.
RECURSIVE SkipWs(_, _)
SkipWs(s, i) == IF i <= Len(s) /\ s[i] \in WhiteSpace THEN SkipWs(s, i + 1) ELSE i

\* The characters of a string from s[i] on, after those in acc, to the
\* closing quote.
RECURSIVE ScanString(_, _, _)
ScanString(s, i, acc) ==
    IF i > Len(s) \/ s[i] = Newline THEN ParseFail
    ELSE IF s[i] = Quote THEN [ok |-> TRUE, next |-> i + 1, val |-> JStr(acc)]
    ELSE IF s[i] # Backslash THEN ScanString(s, i + 1, Append(acc, s[i]))
    ELSE IF i + 1 > Len(s) THEN ParseFail
    ELSE IF s[i + 1] \in {Quote, Backslash} THEN ScanString(s, i + 2, Append(acc, s[i + 1]))
    ELSE IF s[i + 1] = LetterN THEN ScanString(s, i + 2, Append(acc, Newline))
    ELSE ParseFail

ParseString(s, i) ==
    IF i > Len(s) \/ s[i] # Quote THEN ParseFail ELSE ScanString(s, i + 1, <<>>)

\* obj[key] = value: a key the object has keeps its place and takes the
\* new value.
SetMember(ms, key, value) ==
    IF \E j \in DOMAIN ms : ms[j].key = key
    THEN [j \in DOMAIN ms |-> IF ms[j].key = key THEN [key |-> key, value |-> value] ELSE ms[j]]
    ELSE Append(ms, [key |-> key, value |-> value])

StartsWith(s, i, word) ==
    i + Len(word) - 1 <= Len(s) /\ SubSeq(s, i, i + Len(word) - 1) = word

RECURSIVE ParseValue(_, _), ParseMembers(_, _, _), ParseItems(_, _, _)
\* The members of an object from s[i] on, after those in acc, to the "}".
ParseMembers(s, i, acc) ==
    LET k == ParseString(s, SkipWs(s, i))
        c == SkipWs(s, k.next)
    IN  IF ~k.ok \/ c > Len(s) \/ s[c] # Colon THEN ParseFail
        ELSE LET v == ParseValue(s, SkipWs(s, c + 1))
                 e == SkipWs(s, v.next)
                 all == SetMember(acc, k.val.str, v.val)
             IN  IF ~v.ok \/ e > Len(s) THEN ParseFail
                 ELSE IF s[e] = RBrace THEN [ok |-> TRUE, next |-> e + 1, val |-> JObj(all)]
                 ELSE IF s[e] = Comma THEN ParseMembers(s, e + 1, all)
                 ELSE ParseFail

\* The items of an array from s[i] on, after those in acc, to the "]".
ParseItems(s, i, acc) ==
    LET v == ParseValue(s, SkipWs(s, i))
        e == SkipWs(s, v.next)
        all == Append(acc, v.val)
    IN  IF ~v.ok \/ e > Len(s) THEN ParseFail
        ELSE IF s[e] = RBracket THEN [ok |-> TRUE, next |-> e + 1, val |-> JArr(all)]
        ELSE IF s[e] = Comma THEN ParseItems(s, e + 1, all)
        ELSE ParseFail

ParseValue(s, i) ==
    IF i > Len(s) THEN ParseFail
    ELSE IF s[i] = Quote THEN ParseString(s, i)
    ELSE IF StartsWith(s, i, TrueText) THEN [ok |-> TRUE, next |-> i + 4, val |-> JTrue]
    ELSE IF StartsWith(s, i, NullText) THEN [ok |-> TRUE, next |-> i + 4, val |-> JNull]
    ELSE IF s[i] = LBracket
    THEN LET j == SkipWs(s, i + 1)
         IN  IF j <= Len(s) /\ s[j] = RBracket
             THEN [ok |-> TRUE, next |-> j + 1, val |-> JArr(<<>>)]
             ELSE ParseItems(s, j, <<>>)
    ELSE IF s[i] # LBrace THEN ParseFail
    ELSE LET j == SkipWs(s, i + 1)
         IN  IF j <= Len(s) /\ s[j] = RBrace
             THEN [ok |-> TRUE, next |-> j + 1, val |-> JObj(<<>>)]
             ELSE ParseMembers(s, j, <<>>)

\* JSON.parse(s): the whole of s is one value, or a SyntaxError.
JsonParse(s) ==
    LET r == ParseValue(s, SkipWs(s, 1))
    IN  IF r.ok /\ SkipWs(s, r.next) = Len(s) + 1 THEN r ELSE ParseFail

IsJsonObject(s) == Len(s) > 0 /\ s[1] = LBrace /\ JsonParse(s).ok

(***************************************************************************)
(* The five operations that extract JSON from a response, and the error    *)
(* each throws when the match is null.                                     *)
(***************************************************************************)
GeminiParsingOps == {"generateDesign", "analyzeImage", "refineDesign"}
ClaudeParsingOps == {"generateCode", "addFeature"}
ParsingOps == GeminiParsingOps \cup ClaudeParsingOps

ParseErrorOf(op) ==
    CASE op = "generateDesign" -> "Failed to parse design specification from Gemini response"
      [] op = "analyzeImage"   -> "Failed to parse design from image"
      [] op = "refineDesign"   -> "Failed to parse refined design"
      [] op = "generateCode"   -> "Failed to parse code from Claude response"
      [] op = "addFeature"     -> "Failed to parse feature addition response"

SyntaxError == "SyntaxError: Unexpected token in JSON"

(***************************************************************************)
(* Errors.  An error is its message and, for the setup-instructions error  *)
(* of callClaudeCode, the message of the error it wraps.                   *)
(***************************************************************************)
Err(msg) == [msg |-> msg, original |-> ""]
NoErr == Err("")

NoValue == ParseFail.val
Returned(v) == [status |-> "returned", error |-> NoErr, value |-> v]
Threw(e) == [status |-> "threw", error |-> e, value |-> NoValue]
Pending == [status |-> "pending", error |-> NoErr, value |-> NoValue]

\* const jsonMatch = text.match(...); if (!jsonMatch) throw ...; return JSON.parse(jsonMatch[0])
ExtractJson(op, s) ==
    LET m == BraceMatch(s)
    IN  IF ~m.found THEN Threw(Err(ParseErrorOf(op)))
        ELSE LET p == JsonParse(m.span)
             IN  IF p.ok THEN Returned(p.val) ELSE Threw(Err(SyntaxError))

(***************************************************************************)
(* SpecExtract: every text up to MaxLen, through every operation.          *)
(***************************************************************************)
ExIdle ==
    /\ exDone = FALSE
    /\ exResult = [op \in ParsingOps |-> Pending]

ExInit ==
    /\ exText \in TextsOver(Alphabet, MaxLen)
    /\ ExIdle

\* The same text handed to each of the five operations' extraction.
Extract ==
    /\ ~exDone
    /\ exDone' = TRUE
    /\ exResult' = [op \in ParsingOps |-> ExtractJson(op, exText)]
    /\ UNCHANGED <<cliVars, jsonVars, twoVars, rfVars, exText, svcVars, prVars, fsVars>>

ExNext == Extract

(***************************************************************************)
(* The well-formed JSON objects a text contains: the spans <<i, j>> whose  *)
(* characters parse as an object.  A text contains exactly one object when *)
(* exactly one such span lies in no other (a nested object is part of the  *)
(* object around it).                                                      *)
(***************************************************************************)
ObjectSpans(s) ==
    {sp \in (1..Len(s)) \X (1..Len(s)) :
        /\ sp[1] < sp[2] /\ s[sp[1]] = LBrace /\ s[sp[2]] = RBrace
        /\ IsJsonObject(SubSeq(s, sp[1], sp[2]))}

OutermostSpans(s) ==
    LET all == ObjectSpans(s)
    IN  {sp \in all : ~\E o \in all : o # sp /\ o[1] <= sp[1] /\ sp[2] <= o[2]}

HasOneObject(s) == Cardinality(OutermostSpans(s)) = 1
TheObjectSpan(s) == CHOOSE sp \in OutermostSpans(s) : TRUE
TheObject(s) == SubSeq(s, TheObjectSpan(s)[1], TheObjectSpan(s)[2])

\* No "{" in the prose before the object and no "}" in the prose after it.
ProseIsBraceFree(s) ==
    LET sp == TheObjectSpan(s)
    IN  /\ \A i \in 1..(sp[1] - 1) : s[i] # LBrace
        /\ \A i \in (sp[2] + 1)..Len(s) : s[i] # RBrace

\* C5 as stated: a text that contains exactly one well-formed JSON object,
\* whatever surrounds it, is extracted to exactly that object.
C5_AnyProseYieldsObject ==
    (exDone /\ HasOneObject(exText))
        => \A op \in ParsingOps :
              exResult[op] = Returned(JsonParse(TheObject(exText)).val)

\* C5 amended: a text that contains exactly one well-formed JSON object, with
\* no "{" in the prose before it and no "}" in the prose after it, is extracted
\* to exactly that object by each of the five operations.
C5_BraceFreeProseYieldsObject ==
    (exDone /\ HasOneObject(exText) /\ ProseIsBraceFree(exText))
        => \A op \in ParsingOps :
              exResult[op] = Returned(JsonParse(TheObject(exText)).val)

\* Prose stands before and after the object, and the object came back.
C5_Witness ==
    /\ exDone /\ HasOneObject(exText) /\ ProseIsBraceFree(exText)
    /\ TheObjectSpan(exText)[1] > 1 /\ TheObjectSpan(exText)[2] < Len(exText)
    /\ exResult["generateCode"].status = "returned"
    /\ exResult["generateCode"].value.kind = "object"

\* C7: a "{"..."}" span that is not well-formed JSON fails with the same
\* context-specific 'Failed to parse ...' error as a text with no span.
C7_MalformedSpanIsParseError ==
    (exDone /\ BraceMatch(exText).found /\ ~JsonParse(BraceMatch(exText).span).ok)
        => \A op \in ParsingOps : exResult[op] = Threw(Err(ParseErrorOf(op)))

(***************************************************************************)
(* The environment of the process.  process.env.X is undefined or a        *)
(* string; `if (apiKey)` takes undefined and the empty string as not set   *)
(* (config show prints 'Not set' for both).  gcloud is the external        *)
(* credential helper.                                                      *)
(***************************************************************************)
Undefined == "<undefined>"
Null == "<null>"

Truthy(v) == v # Undefined /\ v # ""

KeyValues == {Undefined, "", "key"}
ProjectValues == {Undefined, "project"}

\* gcloudLogin: whether `gcloud auth application-default print-access-token`
\* returns a token.
Environments ==
    [GEMINI_API_KEY : KeyValues, ANTHROPIC_API_KEY : KeyValues,
     GOOGLE_CLOUD_PROJECT : ProjectValues, gcloudLogin : BOOLEAN]

(***************************************************************************)
(* The services' fields, before and after their constructors.              *)
(***************************************************************************)
GeminiFieldInit == [built |-> FALSE, client |-> Null, model |-> Null, useOAuth |-> FALSE]
ClaudeFieldInit == [built |-> FALSE, client |-> Null, useClaudeCode |-> FALSE]

GeminiConstructorFlagFirst(e) ==
    IF Truthy(e.GEMINI_API_KEY)
    THEN [built |-> TRUE, client |-> "GoogleGenerativeAI", model |-> "gemini-2.0-flash",
          useOAuth |-> TRUE]
    ELSE [built |-> TRUE, client |-> Null, model |-> Null, useOAuth |-> TRUE]

GeminiConstructor(e) ==
    IF Truthy(e.GEMINI_API_KEY)
    THEN [built |-> TRUE, client |-> "GoogleGenerativeAI", model |-> "gemini-2.0-flash",
          useOAuth |-> FALSE]
    ELSE [built |-> TRUE, client |-> Null, model |-> Null, useOAuth |-> TRUE]

ClaudeConstructor(e) ==
    IF Truthy(e.ANTHROPIC_API_KEY)
    THEN [built |-> TRUE, client |-> "Anthropic", useClaudeCode |-> FALSE]
    ELSE [built |-> TRUE, client |-> Null, useClaudeCode |-> TRUE]

\* callGeminiAPI / analyzeImage: if (!this.useOAuth && this.model) ... else OAuth
GeminiPath(g) == IF ~g.useOAuth /\ g.model # Null THEN "direct" ELSE "oauth"

\* callAPI: if (this.useClaudeCode) return this.callClaudeCode(prompt)
ClaudePath(c) == IF c.useClaudeCode THEN "delegated" ELSE "direct"

\* The errors of the services.
OAuthNotConfigured ==
    Err("Google OAuth not configured. Run: gcloud auth application-default login")
NoProject == Err("Could not determine Google Cloud project. Set GOOGLE_CLOUD_PROJECT env var.")
GeminiApiError == Err("Gemini API error: <response text>")
ImageReadError == Err("ENOENT: no such file or directory, open <imagePath>")
NetworkError == Err("fetch failed")
SdkError == Err("<error thrown by the SDK call>")
NoCandidates == Err("TypeError: Cannot read properties of undefined (reading '0')")
UnlinkENOENT == Err("ENOENT: no such file or directory, unlink <promptFile>")
ClaudeTimeout == Err("Claude Code timeout")
SpawnError == Err("<spawn error>")
ExitedWithCode == Err("Claude Code exited with code <N>")
SetupInstructions(original) ==
    [msg |-> "Claude Code CLI not available or not logged in. Run: claude login",
     original |-> original.msg]

\* What execAsync rejects with, by the reason the primary invocation failed.
ExecError(reason) ==
    CASE reason = "exit"    -> Err("Command failed: claude --print <prompt> (exit code)")
      [] reason = "timeout" -> Err("Command failed: claude --print <prompt> (killed)")
      [] reason = "stderr"  -> Err("<stderr of the primary invocation>")

(***************************************************************************)
(* Requests.  The process is single-threaded and awaits every call, so one *)
(* request is in flight at a time.  An action is the code that runs from   *)
(* one await to the next.                                                  *)
(***************************************************************************)
RespLen == 3
MaxChunks == 2
MaxRequests == 2

\* The response texts of the services' requests: braces and prose.
RespTexts == TextsOver({LBrace, RBrace, Prose}, RespLen)
Chunks == {<<LBrace>>, <<RBrace>>, <<Prose>>}
ExitCodes == {"0", "1"}

GeminiOps == {"generateDesign", "analyzeImage", "refineDesign"}
ClaudeOps == {"generateCode", "refactorCode", "addFeature"}

\* gotText: the backend's response text has come back to the operation.
ReqIdle == [op |-> "", pc |-> "idle", text |-> <<>>, gotText |-> FALSE, respOk |-> TRUE,
            imageOk |-> TRUE, result |-> Pending]

\* fetches: HTTP requests to the model endpoint; sdkCalls: calls of an SDK
\* client; agentRuns: invocations of the external agent; helperCalls: gcloud
\* runs.  paths: the authentication paths requests have used so far.
IoOf(paths) == [fetches |-> 0, sdkCalls |-> 0, agentRuns |-> 0, helperCalls |-> 0,
                paths |-> paths]

CcIdle == [called |-> FALSE, promptFile |-> "", primary |-> "none", stdout |-> <<>>,
           primaryErr |-> NoErr,
           child |-> "none", exit |-> "none", killed |-> FALSE, errored |-> FALSE, chunks |-> <<>>,
           promise |-> "none", value |-> <<>>, reason |-> NoErr, timer |-> "unset"]

\* `d2c-prompt-${Date.now()}.txt` in os.tmpdir()
PromptFile == "d2c-prompt-<Date.now()>.txt"

SvcIdle ==
    /\ gemini = GeminiFieldInit
    /\ claude = ClaudeFieldInit
    /\ req = ReqIdle
    /\ io = IoOf({})
    /\ cc = CcIdle
    /\ tmpFiles = {}
    /\ requests = 0

SvcInit ==
    /\ env \in Environments
    /\ SvcIdle

RECURSIVE Join(_)
Join(chunks) == IF chunks = <<>> THEN <<>> ELSE Head(chunks) \o Join(Tail(chunks))

\* fs.unlinkSync(f): removes f, or throws ENOENT when f does not exist.
UnlinkSync(files, f) == [ok |-> f \in files, files |-> files \ {f}]

\* The operation throws e.
Fail(r, e) == [r EXCEPT !.pc = "done", !.result = Threw(e)]

\* The backend's text t has arrived: refactorCode returns it as it is, the
\* parsing operations extract the JSON and return it or throw.
CompleteOrRetry(r, t) ==
    IF r.op # "refactorCode" /\ ~BraceMatch(t).found
    THEN [r EXCEPT !.text = t, !.gotText = TRUE]
    ELSE [r EXCEPT !.pc = "done", !.text = t, !.gotText = TRUE,
                   !.result = IF r.op = "refactorCode" THEN Returned(NoValue)
                              ELSE ExtractJson(r.op, t)]

Complete(r, t) ==
    [r EXCEPT !.pc = "done", !.text = t, !.gotText = TRUE,
              !.result = IF r.op = "refactorCode" THEN Returned(NoValue)
                         ELSE ExtractJson(r.op, t)]

CanStart == req.pc \in {"idle", "done"} /\ requests < MaxRequests

NewGeminiService ==
    /\ ~gemini.built /\ req.pc = "idle"
    /\ gemini' = GeminiConstructor(env)
    /\ UNCHANGED <<cliVars, jsonVars, twoVars, rfVars, exVars, prVars, fsVars, env, claude, req, io, cc, tmpFiles, requests>>

NewClaudeService ==
    /\ ~claude.built /\ req.pc = "idle"
    /\ claude' = ClaudeConstructor(env)
    /\ UNCHANGED <<cliVars, jsonVars, twoVars, rfVars, exVars, prVars, fsVars, env, gemini, req, io, cc, tmpFiles, requests>>

(***************************************************************************)
(* GeminiService: generateDesign, refineDesign (through callGeminiAPI) and *)
(* analyzeImage (its own copy of both paths, after reading the image).     *)
(***************************************************************************)
GeminiEntry(g) == IF GeminiPath(g) = "direct" THEN "generateContent" ELSE "getAccessToken"

StartGemini(op) ==
    /\ gemini.built /\ CanStart
    /\ req' = [ReqIdle EXCEPT !.op = op,
                              !.pc = IF op = "analyzeImage" THEN "readImage"
                                     ELSE GeminiEntry(gemini)]
    /\ io' = IoOf(io.paths)
    /\ cc' = CcIdle
    /\ requests' = requests + 1
    /\ UNCHANGED <<cliVars, jsonVars, twoVars, rfVars, exVars, prVars, fsVars, env, gemini, claude, tmpFiles>>

\* const imageData = fs.readFileSync(imagePath)
ReadImage ==
    /\ req.pc = "readImage"
    /\ \E ok \in BOOLEAN :
         req' = IF ok THEN [req EXCEPT !.pc = GeminiEntry(gemini)]
                ELSE Fail([req EXCEPT !.imageOk = FALSE], ImageReadError)
    /\ UNCHANGED <<cliVars, jsonVars, twoVars, rfVars, exVars, prVars, fsVars, env, gemini, claude, io, cc, tmpFiles, requests>>

\* await this.model.generateContent(...); result.response.text(); extraction
GenerateContent ==
    /\ req.pc = "generateContent"
    /\ io' = [io EXCEPT !.sdkCalls = @ + 1, !.paths = @ \cup {<<"gemini", "direct">>}]
    /\ \/ \E t \in RespTexts : req' = Complete(req, t)
       \/ req' = Fail(req, SdkError)
    /\ UNCHANGED <<cliVars, jsonVars, twoVars, rfVars, exVars, prVars, fsVars, env, gemini, claude, cc, tmpFiles, requests>>

GetAccessTokenSwallowsError ==
    /\ req.pc = "getAccessToken"
    /\ io' = [io EXCEPT !.helperCalls = @ + 1, !.paths = @ \cup {<<"gemini", "oauth">>}]
    /\ req' = IF Truthy(env.GOOGLE_CLOUD_PROJECT) THEN [req EXCEPT !.pc = "fetch"]
              ELSE [req EXCEPT !.pc = "getProjectId"]
    /\ UNCHANGED <<cliVars, jsonVars, twoVars, rfVars, exVars, prVars, fsVars, env, gemini, claude, cc, tmpFiles, requests>>

\* const accessToken = await this.getAccessToken()
GetAccessToken ==
    /\ req.pc = "getAccessToken"
    /\ io' = [io EXCEPT !.helperCalls = @ + 1, !.paths = @ \cup {<<"gemini", "oauth">>}]
    /\ req' = IF ~env.gcloudLogin THEN Fail(req, OAuthNotConfigured)
              ELSE IF Truthy(env.GOOGLE_CLOUD_PROJECT) THEN [req EXCEPT !.pc = "fetch"]
              ELSE [req EXCEPT !.pc = "getProjectId"]
    /\ UNCHANGED <<cliVars, jsonVars, twoVars, rfVars, exVars, prVars, fsVars, env, gemini, claude, cc, tmpFiles, requests>>

\* process.env.GOOGLE_CLOUD_PROJECT || await this.getProjectId()
GetProjectId ==
    /\ req.pc = "getProjectId"
    /\ io' = [io EXCEPT !.helperCalls = @ + 1]
    /\ \E ok \in BOOLEAN :
         req' = IF ok THEN [req EXCEPT !.pc = "fetch"] ELSE Fail(req, NoProject)
    /\ UNCHANGED <<cliVars, jsonVars, twoVars, rfVars, exVars, prVars, fsVars, env, gemini, claude, cc, tmpFiles, requests>>

\* const response = await fetch(...:generateContent)
Fetch ==
    /\ req.pc = "fetch"
    /\ io' = [io EXCEPT !.fetches = @ + 1]
    /\ \/ req' = Fail(req, NetworkError)
       \/ req' = [req EXCEPT !.pc = "response", !.respOk = FALSE]
       \/ \E t \in RespTexts : req' = [req EXCEPT !.pc = "response", !.respOk = TRUE, !.text = t]
    /\ UNCHANGED <<cliVars, jsonVars, twoVars, rfVars, exVars, prVars, fsVars, env, gemini, claude, cc, tmpFiles, requests>>

\* callGeminiAPI: if (!response.ok) throw ...; data.candidates[0]...text
\* analyzeImage: no check of response.ok; an error body has no candidates.
ReadResponse ==
    /\ req.pc = "response"
    /\ req' = IF req.respOk THEN Complete(req, req.text)
              ELSE IF req.op = "analyzeImage" THEN Fail(req, NoCandidates)
              ELSE Fail(req, GeminiApiError)
    /\ UNCHANGED <<cliVars, jsonVars, twoVars, rfVars, exVars, prVars, fsVars, env, gemini, claude, io, cc, tmpFiles, requests>>

(***************************************************************************)
(* ClaudeService: generateCode, refactorCode and addFeature through        *)
(* callAPI, which is the SDK call or callClaudeCode.                       *)
(***************************************************************************)
\* The catch block of callClaudeCode: runClaudeCodeInteractive spawns the
\* agent a second time, registers its handlers and arms the 5-minute timer.
CatchPrimaryGiveUp(c, reason, e) == [c EXCEPT !.primary = reason, !.primaryErr = e]

CatchPrimary(c, reason, e) ==
    [c EXCEPT !.primary = reason, !.primaryErr = e, !.child = "running",
              !.promise = "pending", !.timer = "armed"]

SecondaryFailedNoUnlink(files, f, primaryErr) ==
    [files |-> files, threw |-> TRUE, text |-> <<>>, error |-> SetupInstructions(primaryErr)]

\* Line 63 failed or the secondary rejected: unlink, then throw the setup
\* instructions with the primary's message (an unlink that throws leaves the
\* catch block with its own error).
SecondaryFailed(files, f, primaryErr) ==
    LET u == UnlinkSync(files, f)
    IN  [files |-> u.files, threw |-> TRUE, text |-> <<>>,
         error |-> IF u.ok THEN SetupInstructions(primaryErr) ELSE UnlinkENOENT]

\* The secondary resolved with `value`: unlink, return the value.
SecondarySucceeded(files, f, value, primaryErr) ==
    LET u == UnlinkSync(files, f)
    IN  IF u.ok THEN [files |-> u.files, threw |-> FALSE, text |-> value, error |-> NoErr]
        ELSE SecondaryFailed(u.files, f, primaryErr)

StartClaude(op) ==
    /\ claude.built /\ CanStart
    /\ requests' = requests + 1
    /\ IF ClaudePath(claude) = "direct"
       THEN /\ req' = [ReqIdle EXCEPT !.op = op, !.pc = "messagesCreate"]
            /\ io' = IoOf(io.paths)
            /\ cc' = CcIdle
            /\ UNCHANGED tmpFiles
       ELSE \* callClaudeCode up to its first await: the prompt file, the exec
            /\ req' = [ReqIdle EXCEPT !.op = op, !.pc = "ccPrimary"]
            /\ io' = [IoOf(io.paths \cup {<<"claude", "delegated">>}) EXCEPT !.agentRuns = 1]
            /\ cc' = [CcIdle EXCEPT !.called = TRUE, !.promptFile = PromptFile]
            /\ tmpFiles' = tmpFiles \cup {PromptFile}
    /\ UNCHANGED <<cliVars, jsonVars, twoVars, rfVars, exVars, prVars, fsVars, env, gemini, claude>>

\* await this.client!.messages.create(...); content[0].text or ''
MessagesCreate ==
    /\ req.pc = "messagesCreate"
    /\ io' = [io EXCEPT !.sdkCalls = @ + 1, !.paths = @ \cup {<<"claude", "direct">>}]
    /\ \/ \E t \in RespTexts : req' = Complete(req, t)
       \/ req' = Fail(req, SdkError)
    /\ UNCHANGED <<cliVars, jsonVars, twoVars, rfVars, exVars, prVars, fsVars, env, gemini, claude, cc, tmpFiles, requests>>

\* execAsync resolved with {stdout, stderr}: unlink the prompt file, then
\* throw stderr into the catch block when stdout is empty, else return stdout.
CcPrimaryResolved ==
    /\ req.pc = "ccPrimary"
    /\ \E stdout \in RespTexts, stderr \in BOOLEAN :
         LET u == UnlinkSync(tmpFiles, cc.promptFile)
         IN  /\ tmpFiles' = u.files
             /\ IF u.ok /\ ~(stderr /\ stdout = <<>>)
                THEN /\ req' = Complete(req, stdout)
                     /\ cc' = [cc EXCEPT !.primary = "ok", !.stdout = stdout]
                     /\ UNCHANGED io
                ELSE /\ req' = [req EXCEPT !.pc = "ccSecondary"]
                     /\ cc' = CatchPrimary(cc, "stderr",
                                 IF u.ok THEN ExecError("stderr") ELSE UnlinkENOENT)
                     /\ io' = [io EXCEPT !.agentRuns = @ + 1]
    /\ UNCHANGED <<cliVars, jsonVars, twoVars, rfVars, exVars, prVars, fsVars, env, gemini, claude, requests>>

\* execAsync rejected: the agent exited non-zero, or the exec timeout killed it.
CcPrimaryRejected ==
    /\ req.pc = "ccPrimary"
    /\ \E reason \in {"exit", "timeout"} :
         cc' = CatchPrimary(cc, reason, ExecError(reason))
    /\ req' = [req EXCEPT !.pc = "ccSecondary"]
    /\ io' = [io EXCEPT !.agentRuns = @ + 1]
    /\ UNCHANGED <<cliVars, jsonVars, twoVars, rfVars, exVars, prVars, fsVars, env, gemini, claude, tmpFiles, requests>>

\* resolve that settles the promise again, whatever it was.
ResolveOverriding(c, v) == [c EXCEPT !.promise = "resolved", !.value = v]

\* resolve / reject of the promise of runClaudeCodeInteractive: the first
\* settles it, the later ones do nothing.
Resolve(c, v) == IF c.promise = "pending" THEN [c EXCEPT !.promise = "resolved", !.value = v] ELSE c
Reject(c, e) == IF c.promise = "pending" THEN [c EXCEPT !.promise = "rejected", !.reason = e] ELSE c

\* claude.stdout.on('data', ...)
SecData ==
    /\ cc.child = "running" /\ Len(cc.chunks) < MaxChunks
    /\ \E d \in Chunks : cc' = [cc EXCEPT !.chunks = Append(@, d)]
    /\ UNCHANGED <<cliVars, jsonVars, twoVars, rfVars, exVars, prVars, fsVars, env, gemini, claude, req, io, tmpFiles, requests>>

\* A close handler that looks at the exit code alone.
CloseHandlerByCodeOnly(c, code) ==
    IF code = "0" THEN Resolve(c, Join(c.chunks)) ELSE Reject(c, ExitedWithCode)

\* claude.on('close', (code) => ...): a killed child closes with code null
CloseHandler(c, code) ==
    IF code = "0" \/ Len(c.chunks) > 0 THEN Resolve(c, Join(c.chunks))
    ELSE Reject(c, ExitedWithCode)

SecClose ==
    /\ cc.child = "running"
    /\ \E code \in (IF cc.killed THEN {Null} ELSE ExitCodes) :
         cc' = [CloseHandler(cc, code) EXCEPT !.child = "closed", !.exit = code]
    /\ UNCHANGED <<cliVars, jsonVars, twoVars, rfVars, exVars, prVars, fsVars, env, gemini, claude, req, io, tmpFiles, requests>>

\* claude.on('error', (err) => reject(err))
SecError ==
    /\ cc.child = "running" /\ ~cc.errored /\ cc.chunks = <<>>
    /\ cc' = [Reject(cc, SpawnError) EXCEPT !.errored = TRUE]
    /\ UNCHANGED <<cliVars, jsonVars, twoVars, rfVars, exVars, prVars, fsVars, env, gemini, claude, req, io, tmpFiles, requests>>

SecTimerKillsOnly ==
    /\ cc.timer = "armed"
    /\ cc' = [cc EXCEPT !.timer = "fired", !.killed = (cc.child = "running")]
    /\ UNCHANGED <<cliVars, jsonVars, twoVars, rfVars, exVars, prVars, fsVars, env, gemini, claude, req, io, tmpFiles, requests>>

\* setTimeout(() => { claude.kill(); reject(...) }, 300000); never cleared
SecTimer ==
    /\ cc.timer = "armed"
    /\ cc' = [Reject(cc, ClaudeTimeout) EXCEPT !.timer = "fired",
                                               !.killed = (cc.child = "running")]
    /\ UNCHANGED <<cliVars, jsonVars, twoVars, rfVars, exVars, prVars, fsVars, env, gemini, claude, req, io, tmpFiles, requests>>

\* callClaudeCode resumes after await this.runClaudeCodeInteractive(prompt)
CcAfterSecondary ==
    /\ req.pc = "ccSecondary" /\ cc.promise \in {"resolved", "rejected"}
    /\ LET o == IF cc.promise = "resolved"
                THEN SecondarySucceeded(tmpFiles, cc.promptFile, cc.value, cc.primaryErr)
                ELSE SecondaryFailed(tmpFiles, cc.promptFile, cc.primaryErr)
       IN  /\ tmpFiles' = o.files
           /\ req' = IF o.threw THEN Fail(req, o.error) ELSE Complete(req, o.text)
    /\ UNCHANGED <<cliVars, jsonVars, twoVars, rfVars, exVars, prVars, fsVars, env, gemini, claude, io, cc, requests>>

SvcNext ==
    \/ NewGeminiService
    \/ NewClaudeService
    \/ \E op \in GeminiOps : StartGemini(op)
    \/ ReadImage
    \/ GenerateContent
    \/ GetAccessToken
    \/ GetProjectId
    \/ Fetch
    \/ ReadResponse
    \/ \E op \in ClaudeOps : StartClaude(op)
    \/ MessagesCreate
    \/ CcPrimaryResolved
    \/ CcPrimaryRejected
    \/ SecData
    \/ SecClose
    \/ SecError
    \/ SecTimer
    \/ CcAfterSecondary

vars == <<exVars, svcVars, prVars, fsVars, cliVars, jsonVars, twoVars, rfVars>>

(***************************************************************************)
(* Properties of the services (Spec).                                      *)
(***************************************************************************)
Done == req.pc = "done"

\* C1: when callClaudeCode has returned or thrown, on any of its exit paths,
\* the temporary prompt file it wrote no longer exists.
C1_PromptFileRemoved ==
    (Done /\ cc.called) => cc.promptFile \notin tmpFiles

\* Both invocations failed, the secondary by its timeout, and the call threw.
C1_Witness ==
    /\ Done /\ cc.called /\ cc.primary = "exit"
    /\ cc.promise = "rejected" /\ cc.reason = ClaudeTimeout
    /\ req.result.status = "threw"
    /\ tmpFiles = {}

NoGeminiCredentials == ~Truthy(env.GEMINI_API_KEY) /\ ~env.gcloudLogin

\* C2 as stated: with no GEMINI_API_KEY and no token from the credential
\* helper, each of generateDesign, analyzeImage and refineDesign fails with
\* 'Google OAuth not configured' and issues no HTTP request.
C2_NoCredentialsIsOAuthError ==
    (req.op \in GeminiOps /\ NoGeminiCredentials)
        => /\ io.fetches = 0
           /\ Done => req.result = Threw(OAuthNotConfigured)

\* C2 amended: with no GEMINI_API_KEY and no token from the credential helper,
\* generateDesign and refineDesign fail with 'Google OAuth not configured', and
\* so does analyzeImage when its image file can be read (when it cannot,
\* analyzeImage fails with the file system's error before any credential is
\* asked for); in every case no request goes to the model endpoint.
C2_NoCredentialsFailsBeforeAnyCall ==
    (req.op \in GeminiOps /\ NoGeminiCredentials)
        => /\ io.fetches = 0 /\ io.sdkCalls = 0
           /\ Done => req.result = IF req.imageOk THEN Threw(OAuthNotConfigured)
                                   ELSE Threw(ImageReadError)
           /\ ~req.imageOk => req.op = "analyzeImage"

\* analyzeImage read its image and failed on the missing credentials.
C2_Witness ==
    /\ Done /\ req.op = "analyzeImage" /\ req.imageOk /\ NoGeminiCredentials
    /\ req.result = Threw(OAuthNotConfigured)
    /\ io.helperCalls = 1 /\ io.fetches = 0

\* C3: with no ANTHROPIC_API_KEY, when both invocations of the agent fail,
\* however the primary failed, the call throws the setup-instructions error
\* carrying the primary's message, after exactly two invocations.
C3_BothFailGivesSetupError ==
    (Done /\ cc.called /\ cc.primary \in {"exit", "timeout", "stderr"}
          /\ cc.promise = "rejected")
        => /\ req.result = Threw(SetupInstructions(cc.primaryErr))
           /\ io.agentRuns = 2

ChosenGeminiPath == IF Truthy(env.GEMINI_API_KEY) THEN "direct" ELSE "oauth"
ChosenClaudePath == IF Truthy(env.ANTHROPIC_API_KEY) THEN "direct" ELSE "delegated"

C4_State ==
    /\ gemini.built => /\ (gemini.client # Null) <=> ~gemini.useOAuth
                       /\ Truthy(env.GEMINI_API_KEY) => ~gemini.useOAuth
    /\ claude.built => /\ (claude.client # Null) <=> ~claude.useClaudeCode
                       /\ Truthy(env.ANTHROPIC_API_KEY) => ~claude.useClaudeCode
    /\ io.paths \subseteq {<<"gemini", ChosenGeminiPath>>, <<"claude", ChosenClaudePath>>}

C4_Step ==
    /\ gemini.built => gemini' = gemini
    /\ claude.built => claude' = claude

\* C4: each service's authentication path is fixed at construction: the client
\* is non-null exactly when the delegated flag is false, a set (non-empty)
\* environment key selects the API-key path, the fields never change after
\* construction, and every request uses only the path chosen at construction.
C4_AuthPathFixedAtConstruction == []C4_State /\ [][C4_Step]_vars

\* Requests have gone through both services, each on its own path.
C4_Witness ==
    /\ gemini.built /\ claude.built /\ Done
    /\ io.paths = {<<"gemini", "oauth">>, <<"claude", "direct">>}

NoSpan(t) == ~BraceMatch(t).found

C6_State ==
    /\ (Done /\ req.gotText /\ req.op \in ParsingOps /\ NoSpan(req.text))
          => req.result = Threw(Err(ParseErrorOf(req.op)))
    /\ io.fetches + io.sdkCalls <= 1

C6_Step ==
    (req.gotText /\ req'.gotText)
        => /\ io'.fetches = io.fetches /\ io'.sdkCalls = io.sdkCalls
           /\ io'.agentRuns = io.agentRuns
           /\ req'.result = req.result

\* C6: a response text with no span from a "{" to a later "}" makes each
\* parsing operation fail with its own 'Failed to parse ...' error, a function
\* of the operation alone, and once the text is back the backend is not called
\* again for that request.
C6_NoSpanFailsWithoutRetry == []C6_State /\ [][C6_Step]_vars

\* The agent's secondary invocation returned "}{" to addFeature.
C6_Witness ==
    /\ Done /\ req.gotText /\ req.op = "addFeature" /\ req.text = <<RBrace, LBrace>>
    /\ cc.promise = "resolved" /\ io.agentRuns = 2
    /\ req.result = Threw(Err("Failed to parse feature addition response"))

PrimaryFailed == cc.primary \in {"exit", "timeout", "stderr"}
SecondaryStarted == cc.child # "none"

\* C16: in callClaudeCode the secondary invocation is started exactly when
\* the primary has failed, and once at most; when the primary succeeds the
\* call returns the primary's standard output without a secondary.
C16_SecondaryIffPrimaryFailed ==
    cc.called
        => /\ SecondaryStarted <=> PrimaryFailed
           /\ io.agentRuns = IF SecondaryStarted THEN 2 ELSE 1
           /\ cc.primary = "ok"
                 => /\ Done /\ req.gotText /\ req.text = cc.stdout
                    /\ cc.promise = "none" /\ cc.timer = "unset"

\* The primary exited non-zero, the secondary ran once and its output was
\* returned and parsed.
C16_Witness ==
    /\ Done /\ cc.primary = "exit" /\ cc.promise = "resolved" /\ io.agentRuns = 2
    /\ req.op = "generateCode" /\ req.result.status = "returned"

InDelegatedCall == req.pc \in {"ccPrimary", "ccSecondary"}

\* C17: a delegated call always ends: callClaudeCode eventually returns or
\* throws even if the agent never exits on its own, and a timer that has
\* fired has killed the child unless it had closed before.
C17_DelegatedCallTerminates ==
    /\ InDelegatedCall ~> Done
    /\ [](cc.timer = "fired" => (cc.killed \/ cc.child = "closed"))

\* Both timeouts fired: the exec timeout ended the primary, the timer
\* killed the secondary, and the call has thrown.
C17_Witness ==
    /\ Done /\ cc.primary = "timeout" /\ cc.timer = "fired" /\ cc.killed
    /\ cc.reason = ClaudeTimeout /\ req.result.status = "threw"

AnsweredNotOk == req.op \in GeminiOps /\ Done /\ io.fetches = 1 /\ ~req.respOk

\* C19: on the OAuth path, when the endpoint answers with a non-OK status,
\* generateDesign, refineDesign and analyzeImage fail with the
\* 'Gemini API error: ...' error and take nothing out of the error body.
C19_NonOkIsGeminiApiError ==
    AnsweredNotOk => req.result = Threw(GeminiApiError) /\ ~req.gotText

\* C20: when the primary invocation has failed, in whatever way, and the
\* secondary has succeeded, callClaudeCode returns the secondary's output.
C20_SecondaryOutputReturned ==
    (cc.called /\ Done /\ PrimaryFailed /\ cc.promise = "resolved")
        => req.gotText /\ req.text = cc.value

Settled == cc.promise \in {"resolved", "rejected"}

C21_State ==
    /\ (cc.child = "closed" \/ cc.errored \/ cc.timer = "fired") => Settled
    /\ Settled => (cc.child = "closed" \/ cc.errored \/ cc.timer = "fired")
    /\ (cc.promise = "rejected" /\ cc.reason = ClaudeTimeout) => cc.timer = "fired"

C21_Step ==
    (Settled /\ requests' = requests)
        => /\ cc'.promise = cc.promise
           /\ cc'.value = cc.value
           /\ cc'.reason = cc.reason

\* C21: the promise of runClaudeCodeInteractive is settled by the first of
\* the close event, the error event and the timer, and what comes later
\* does not change it: a timeout stays a timeout when the killed child
\* closes with output, a resolved call stays resolved when the timer fires.
C21_SettledOnce == []C21_State /\ [][C21_Step]_vars

\* The timer fired first and the killed child then closed with output: the
\* call is still rejected with the timeout.
C21_Witness ==
    /\ cc.timer = "fired" /\ cc.killed /\ cc.child = "closed" /\ Len(cc.chunks) > 0
    /\ cc.promise = "rejected" /\ cc.reason = ClaudeTimeout

ClosedFirst == cc.child = "closed" /\ ~cc.errored /\ cc.timer = "armed"

\* C22: a child that closes before the timer and without a spawn error
\* resolves the call with the chunks joined in the order they came when the
\* exit code is 0 or there is a chunk, and rejects it with 'Claude Code
\* exited with code N' when the code is not 0 and there is no chunk.
C22_CloseDecidesByCodeOrOutput ==
    ClosedFirst
        => IF cc.exit = "0" \/ Len(cc.chunks) > 0
           THEN cc.promise = "resolved" /\ cc.value = Join(cc.chunks)
           ELSE cc.promise = "rejected" /\ cc.reason = ExitedWithCode

\* The child exited with code 1 after two chunks: resolved with both.
C22_Witness ==
    /\ ClosedFirst /\ cc.exit = "1" /\ Len(cc.chunks) = 2
    /\ cc.promise = "resolved" /\ cc.value = <<cc.chunks[1][1], cc.chunks[2][1]>>
    /\ cc.chunks[1] # cc.chunks[2]

(***************************************************************************)
(* The code-generation prompt (SpecPrompt).                                *)
(*                                                                         *)
(* JSON.stringify(value, null, 2): members one per line, indented by two   *)
(* spaces per level, ": " after a key, "{}" for an object with no member.  *)
(***************************************************************************)
Indent(level) == [i \in 1..(2 * level) |-> Space]

\* A string's characters as they stand between the quotes, left as they
\* are.
QuoteCharsRaw(str) == str

\* A string's characters as they stand between the quotes: a quote, a
\* backslash and a newline are escaped.
RECURSIVE QuoteChars(_)
QuoteChars(str) ==
    IF str = <<>> THEN <<>>
    ELSE LET c == Head(str)
         IN  (IF c \in {Quote, Backslash} THEN <<Backslash, c>>
              ELSE IF c = Newline THEN <<Backslash, LetterN>>
              ELSE <<c>>) \o QuoteChars(Tail(str))

RECURSIVE Stringify(_, _), StringifyMembers(_, _, _)
\* The members of an object (keyed) or the items of an array, one a line.
StringifyMembers(ms, level, keyed) ==
    LET m == Head(ms)
        line == Indent(level)
                    \o (IF keyed THEN <<Quote>> \o QuoteChars(m.key) \o <<Quote, Colon, Space>>
                        ELSE <<>>)
                    \o Stringify(m.value, level)
    IN  IF Len(ms) = 1 THEN line
        ELSE line \o <<Comma, Newline>> \o StringifyMembers(Tail(ms), level, keyed)

Stringify(v, level) ==
    CASE v.kind = "string" -> <<Quote>> \o QuoteChars(v.str) \o <<Quote>>
      [] v.kind = "true"   -> TrueText
      [] v.kind = "null"   -> NullText
      [] v.kind = "array"  ->
           IF v.members = <<>> THEN <<LBracket, RBracket>>
           ELSE <<LBracket, Newline>> \o StringifyMembers(v.members, level + 1, FALSE)
                    \o <<Newline>> \o Indent(level) \o <<RBracket>>
      [] v.kind = "object" ->
           IF v.members = <<>> THEN <<LBrace, RBrace>>
           ELSE <<LBrace, Newline>> \o StringifyMembers(v.members, level + 1, TRUE)
                    \o <<Newline>> \o Indent(level) \o <<RBrace>>

JsonStringify(v) == Stringify(v, 0)

\* The table of getFrameworkInstructions: its own keys and their blocks.
NextjsBlock == "- Use Next.js App Router (app directory) ..."
ReactBlock == "- Use functional components with hooks ..."
VueBlock == "- Use Vue 3 Composition API ..."

TableKeys == {"nextjs", "react", "vue"}
Table(key) ==
    CASE key = "nextjs" -> NextjsBlock
      [] key = "react"  -> ReactBlock
      [] key = "vue"    -> VueBlock

\* The table is an object literal: a key it does not own is looked up on
\* Object.prototype, whose properties are functions (and, for __proto__, the
\* prototype object itself); the template literal prints them as text.
PrototypeKeys == {"constructor", "toString", "valueOf", "hasOwnProperty", "__proto__"}
PrototypeValue(key) ==
    IF key = "__proto__" THEN "[object Object]"
    ELSE "function <" \o key \o ">() { [native code] }"

\* instructions[framework]
PropertyOf(key) ==
    IF key \in TableKeys THEN Table(key)
    ELSE IF key \in PrototypeKeys THEN PrototypeValue(key)
    ELSE Undefined

\* return instructions[framework] || instructions.react
GetFrameworkInstructions(framework) ==
    IF Truthy(PropertyOf(framework)) THEN PropertyOf(framework) ELSE Table("react")

\* The prompt of generateCode, part by part.
GenerateCodePrompt(design, framework) ==
    [preamble     |-> "You are an expert frontend developer. Generate production-ready code ...",
     design       |-> JsonStringify(design),
     framework    |-> framework,
     instructions |-> GetFrameworkInstructions(framework),
     requirements |-> "Requirements: ... Respond ONLY with valid JSON."]

DesignDepth == 2

\* The design specifications: JSON objects nested DesignDepth deep.
DesignKeys == {<<Prose>>, <<LBrace>>, <<Quote>>}
DesignStrings == {<<>>, <<RBrace>>, <<Quote>>, <<Backslash, LetterN>>, <<Newline>>}
RECURSIVE JsonValues(_)
JsonValues(depth) ==
    IF depth = 0
    THEN {JStr(t) : t \in DesignStrings} \cup {JObj(<<>>), JArr(<<>>), JTrue, JNull}
    ELSE LET V == JsonValues(depth - 1)
         IN  V \cup {JObj(<<[key |-> k, value |-> v]>>) : k \in DesignKeys, v \in V}
               \cup {JObj(<<[key |-> <<Prose>>, value |-> v],
                            [key |-> <<LBrace>>, value |-> JObj(<<>>)]>>) : v \in V}
               \cup {JArr(<<v>>) : v \in V}
               \cup {JArr(<<v, JObj(<<>>)>>) : v \in V}
Designs == {v \in JsonValues(DesignDepth) : v.kind = "object"}

Frameworks == {"nextjs", "react", "vue", "", "angular", "NextJS", "svelte",
               "constructor", "toString", "__proto__"}

NoPrompt == [preamble |-> "", design |-> <<>>, framework |-> "", instructions |-> "",
             requirements |-> ""]
NoInput == [design |-> JObj(<<>>), framework |-> ""]

PrIdle == prInput = NoInput /\ prPrompt = NoPrompt

PrInit ==
    /\ prInput \in [design : Designs, framework : Frameworks]
    /\ prPrompt = NoPrompt

\* generateCode(design, framework), up to the call of callAPI(prompt)
BuildPrompt ==
    /\ prPrompt = NoPrompt
    /\ prPrompt' = GenerateCodePrompt(prInput.design, prInput.framework)
    /\ UNCHANGED <<cliVars, jsonVars, twoVars, rfVars, prInput, exVars, svcVars, fsVars>>

PrNext == BuildPrompt

\* C8: the instruction block in the prompt is the table entry of the framework
\* when that is exactly 'nextjs', 'react' or 'vue', and for every other string
\* (the empty string, 'constructor', ...) one and the same default entry; the
\* prompt holds the serialized DesignSpec.
C8_BlockIsTableEntryOrDefault ==
    prPrompt # NoPrompt
        => /\ prPrompt.instructions =
                 IF prInput.framework \in TableKeys THEN Table(prInput.framework)
                 ELSE Table("react")
           /\ JsonParse(prPrompt.design).val = prInput.design

(***************************************************************************)
(* The output writer (SpecSave).                                           *)
(*                                                                         *)
(* A path is the sequence of its segments from the root.  The file system  *)
(* maps the paths that exist to a directory or to a file and its content;  *)
(* the root always exists, and what exists lies in a directory.            *)
(***************************************************************************)
Dir == [kind |-> "dir", content |-> ""]
File(c) == [kind |-> "file", content |-> c]

RootOnly == [p \in {<<>>} |-> Dir]

Exists(f, p) == p \in DOMAIN f
IsDir(f, p) == Exists(f, p) /\ f[p].kind = "dir"
IsFile(f, p) == Exists(f, p) /\ f[p].kind = "file"

Put(f, p, e) == [q \in DOMAIN f \cup {p} |-> IF q = p THEN e ELSE f[q]]

\* path.dirname
Dirname(p) == IF p = <<>> THEN <<>> ELSE SubSeq(p, 1, Len(p) - 1)

\* path.normalize on segments: "." and "" drop out, ".." takes the segment
\* before it away (at the root it has nothing to take).
RECURSIVE NormalizeOnto(_, _)
NormalizeOnto(done, rest) ==
    IF rest = <<>> THEN done
    ELSE LET h == Head(rest)
         IN  IF h = "." \/ h = "" THEN NormalizeOnto(done, Tail(rest))
             ELSE IF h = ".." THEN NormalizeOnto(Dirname(done), Tail(rest))
             ELSE NormalizeOnto(Append(done, h), Tail(rest))

\* path.join(a, b)
PathJoin(a, b) == NormalizeOnto(<<>>, a \o b)

\* fs.mkdirSync(p, { recursive: true }): every missing directory on the way
\* is made; a file on the way makes it throw.
RECURSIVE MkdirRecursive(_, _)
MkdirRecursive(f, p) ==
    IF IsDir(f, p) THEN [ok |-> TRUE, fs |-> f]
    ELSE IF IsFile(f, p) THEN [ok |-> FALSE, fs |-> f]
    ELSE LET up == MkdirRecursive(f, Dirname(p))
         IN  IF up.ok THEN [ok |-> TRUE, fs |-> Put(up.fs, p, Dir)] ELSE up

\* fs.writeFileSync(p, content, 'utf-8'): creates or overwrites the file;
\* throws when p is a directory or does not lie in a directory.
WriteFileSync(f, p, c) ==
    IF p # <<>> /\ IsDir(f, Dirname(p)) /\ ~IsDir(f, p)
    THEN [ok |-> TRUE, fs |-> Put(f, p, File(c))]
    ELSE [ok |-> FALSE, fs |-> f]

\* if (!fs.existsSync(d)) fs.mkdirSync(d, { recursive: true })
EnsureDir(f, d) == IF Exists(f, d) THEN [ok |-> TRUE, fs |-> f] ELSE MkdirRecursive(f, d)

WriteGeneratedFileAppending(f, dir, file) ==
    LET filePath == PathJoin(dir, file.path)
        made == EnsureDir(f, Dirname(filePath))
    IN  IF ~made.ok THEN made
        ELSE WriteFileSync(made.fs, filePath,
                 IF IsFile(made.fs, filePath) THEN made.fs[filePath].content \o file.content
                 ELSE file.content)

WriteGeneratedFileKeepingOld(f, dir, file) ==
    LET filePath == PathJoin(dir, file.path)
        made == EnsureDir(f, Dirname(filePath))
    IN  IF ~made.ok \/ IsFile(made.fs, filePath) THEN made
        ELSE WriteFileSync(made.fs, filePath, file.content)

\* The body of the loop over code.files.
WriteGeneratedFile(f, dir, file) ==
    LET filePath == PathJoin(dir, file.path)
        made == EnsureDir(f, Dirname(filePath))
    IN  IF ~made.ok THEN made ELSE WriteFileSync(made.fs, filePath, file.content)

RECURSIVE WriteGeneratedFiles(_, _, _)
WriteGeneratedFiles(f, dir, files) ==
    IF files = <<>> THEN [ok |-> TRUE, fs |-> f]
    ELSE LET w == WriteGeneratedFile(f, dir, Head(files))
         IN  IF w.ok THEN WriteGeneratedFiles(w.fs, dir, Tail(files)) ELSE w

SetupName == "SETUP.md"
SetupDocument(instructions) == "# Setup Instructions\n\n" \o instructions

\* if (code.instructions) fs.writeFileSync(path.join(outputDir, 'SETUP.md'), ...)
WriteSetupAlways(f, dir, instructions) ==
    WriteFileSync(f, PathJoin(dir, <<SetupName>>),
                  SetupDocument(IF Truthy(instructions) THEN instructions ELSE ""))

WriteSetup(f, dir, instructions) ==
    IF Truthy(instructions)
    THEN WriteFileSync(f, PathJoin(dir, <<SetupName>>), SetupDocument(instructions))
    ELSE [ok |-> TRUE, fs |-> f]

\* saveOutput(code, outputDir): it has no await, so it runs as one step; a
\* throw leaves what was written before it.
SaveOutput(f, code, dir) ==
    LET made == EnsureDir(f, dir)
    IN  IF ~made.ok THEN made
        ELSE LET written == WriteGeneratedFiles(made.fs, dir, code.files)
             IN  IF ~written.ok THEN written
                 ELSE WriteSetup(written.fs, dir, code.instructions)

MaxFiles == 2

RelPaths == {<<"a">>, <<"a", "b">>, <<"b", "..", "a">>, <<SetupName>>, <<"..", "a">>, <<>>}
Contents == {"c1", "c2"}
CodeFiles == [path : RelPaths, content : Contents]
GeneratedCodes ==
    [files : UNION {[1..n -> CodeFiles] : n \in 0..MaxFiles},
     instructions : {Undefined, "", "npm install"}]
OutputDirs == {<<"out">>, <<"out", "d">>}

\* What may be on the disk before: nothing, the output directory, old files
\* and directories at the paths to be written, a file where the directory goes.
OutDir == Put(RootOnly, <<"out">>, Dir)
InitialFileSystems ==
    {RootOnly,
     OutDir,
     Put(RootOnly, <<"out">>, File("old")),
     Put(OutDir, <<"out", "a">>, File("old")),
     Put(OutDir, <<"out", "a">>, Dir),
     Put(OutDir, <<"out", SetupName>>, File("old")),
     Put(Put(OutDir, <<"out", "d">>, Dir), <<"out", "d", "a">>, File("old")),
     Put(RootOnly, <<"a">>, File("old"))}

NoCode == [files |-> <<>>, instructions |-> ""]
SaveArgsIdle ==
    save = [code |-> NoCode, dir |-> <<>>, calls |-> 0, returned |-> TRUE,
            before |-> RootOnly, afterFirst |-> RootOnly]
SaveIdle == fs = RootOnly /\ SaveArgsIdle

\* save.before, save.afterFirst: the file system before the first call and
\* after it; save.returned: whether the last call returned (or threw).
SaveInit ==
    /\ fs \in InitialFileSystems
    /\ \E c \in GeneratedCodes, d \in OutputDirs :
         save = [code |-> c, dir |-> d, calls |-> 0, returned |-> TRUE,
                 before |-> fs, afterFirst |-> fs]

\* await saveOutput(code, outputDir), a first and a second time
CallSaveOutput ==
    /\ save.calls < 2
    /\ LET r == SaveOutput(fs, save.code, save.dir)
       IN  /\ fs' = r.fs
           /\ save' = [save EXCEPT !.calls = @ + 1, !.returned = r.ok,
                                   !.afterFirst = IF save.calls = 0 THEN r.fs ELSE @]
    /\ UNCHANGED <<cliVars, jsonVars, twoVars, rfVars, exVars, svcVars, prVars>>

SaveNext == CallSaveOutput

(***************************************************************************)
(* Properties of the output writer (SpecSave).                             *)
(***************************************************************************)
Target(i) == PathJoin(save.dir, save.code.files[i].path)
SetupPath == PathJoin(save.dir, <<SetupName>>)
Entries == 1..Len(save.code.files)

\* Entry i is in place: its file exists with the entry's content, in
\* directories that exist.
InPlace(i) ==
    /\ IsFile(fs, Target(i))
    /\ fs[Target(i)].content = save.code.files[i].content
    /\ \A n \in 0..(Len(Target(i)) - 1) : IsDir(fs, SubSeq(Target(i), 1, n))

WrittenLast(i) == ~\E j \in Entries : j > i /\ Target(j) = Target(i)
SetupWrittenOver(i) == Truthy(save.code.instructions) /\ Target(i) = SetupPath

SaveReturned == save.calls >= 1 /\ save.returned

\* C9 as stated: after saveOutput returns, every entry of code.files is in
\* place, for any file list.
C9_EveryEntryInPlace ==
    SaveReturned => \A i \in Entries : InPlace(i)

\* C9 amended: after saveOutput returns, every entry of code.files that no
\* later entry writes over (an entry with the same resolved path, or SETUP.md in
\* the output root when the instructions are non-empty) is in place.
C9_EveryLastEntryInPlace ==
    SaveReturned
        => \A i \in Entries : (WrittenLast(i) /\ ~SetupWrittenOver(i)) => InPlace(i)

\* A nested file went into a directory that did not exist, after an entry
\* that the setup document then replaced.
C9_Witness ==
    /\ save.calls = 1 /\ save.returned /\ Len(save.code.files) = 2
    /\ save.code.files[1].path = <<SetupName>> /\ Truthy(save.code.instructions)
    /\ save.code.files[2].path = <<"a", "b">>
    /\ ~Exists(save.before, save.dir)
    /\ InPlace(2) /\ ~InPlace(1)

\* C10: a second saveOutput with the same arguments leaves the file system
\* as the first call left it, whatever was there before, and a file that
\* existed at a target path does not keep its old content.
C10_SaveOutputIdempotent ==
    /\ save.calls = 2 => fs = save.afterFirst
    /\ SaveReturned
          => \A i \in Entries :
                IsFile(save.before, Target(i))
                    => fs[Target(i)].content # save.before[Target(i)].content

\* Two calls over an old file at a target path.
C10_Witness ==
    /\ save.calls = 2 /\ save.returned /\ Len(save.code.files) = 2
    /\ IsFile(save.before, Target(1))
    /\ fs # save.before /\ fs = save.afterFirst

\* What is at path p: nothing, a directory, or a file and its content.
At(f, p) == IF Exists(f, p) THEN f[p] ELSE [kind |-> "none", content |-> ""]

SaveCalled == save.calls >= 1
NoEntryIsSetup == \A i \in Entries : Target(i) # SetupPath

\* C11 as stated: saveOutput leaves SETUP.md in the output root holding the
\* setup document when the instructions are non-empty, and when they are
\* absent or empty it neither creates nor modifies SETUP.md.
C11_SetupIffInstructions ==
    /\ (SaveReturned /\ Truthy(save.code.instructions))
          => At(fs, SetupPath) = File(SetupDocument(save.code.instructions))
    /\ (SaveCalled /\ ~Truthy(save.code.instructions))
          => At(fs, SetupPath) = At(save.before, SetupPath)

\* C11 amended: after saveOutput returns with non-empty instructions,
\* SETUP.md in the output root is the setup document; with absent or empty
\* instructions no setup document is written, so SETUP.md is as it was
\* before unless an entry of code.files has that very path.
C11_SetupIffInstructionsOrEntry ==
    /\ (SaveReturned /\ Truthy(save.code.instructions))
          => At(fs, SetupPath) = File(SetupDocument(save.code.instructions))
    /\ (SaveCalled /\ ~Truthy(save.code.instructions) /\ NoEntryIsSetup)
          => At(fs, SetupPath) = At(save.before, SetupPath)

\* Two files were written with absent instructions next to an old SETUP.md,
\* which is as it was.
C11_Witness ==
    /\ save.calls = 1 /\ save.returned /\ Len(save.code.files) = 2
    /\ save.code.instructions = Undefined /\ NoEntryIsSetup
    /\ IsFile(save.before, SetupPath) /\ fs # save.before
    /\ At(fs, SetupPath) = File("old")

IsPrefix(a, b) == Len(a) <= Len(b) /\ SubSeq(b, 1, Len(a)) = a
Changed == {p \in DOMAIN fs \cup DOMAIN save.before : At(fs, p) # At(save.before, p)}

\* C23: saveOutput creates or modifies nothing outside the output
\* directory (the directory itself and the directories that lead to it
\* apart), whatever the relative paths of the entries.
C23_WritesStayInsideOutputDir ==
    SaveCalled => \A p \in Changed : IsPrefix(save.dir, p) \/ IsPrefix(p, save.dir)

(***************************************************************************)
(* Saving a design and reading it back (SpecJson): `design` and `generate` *)
(* write the DesignSpec with saveJson; `code generate` reads the file with *)
(* readFile and hands JSON.parse of its text to generateCode.              *)
(***************************************************************************)
FileNotFound == Err("File not found: <filePath>")
ReadEISDIR == Err("EISDIR: illegal operation on a directory, read")
WriteFailed == Err("ENOTDIR / EISDIR: <filePath>")

\* saveJson(data, filePath)
SaveJson(f, data, filePath) ==
    LET made == EnsureDir(f, Dirname(filePath))
    IN  IF ~made.ok THEN made ELSE WriteFileSync(made.fs, filePath, JsonStringify(data))

\* readFile(filePath): the text of the file, or the error thrown
ReadFile(f, filePath) ==
    IF ~Exists(f, filePath) THEN [ok |-> FALSE, text |-> <<>>, error |-> FileNotFound]
    ELSE IF IsDir(f, filePath) THEN [ok |-> FALSE, text |-> <<>>, error |-> ReadEISDIR]
    ELSE [ok |-> TRUE, text |-> f[filePath].content, error |-> NoErr]

DesignFile == "design-spec.json"
DesignPaths == {<<DesignFile>>, <<"output", DesignFile>>}

\* What may be on the disk before: nothing, the directory, an older design
\* file, a directory or a file in the way.
JsonFileSystems ==
    {RootOnly,
     Put(RootOnly, <<"output">>, Dir),
     Put(Put(RootOnly, <<"output">>, Dir), <<"output", DesignFile>>,
         File(JsonStringify(JObj(<<>>)))),
     Put(RootOnly, <<DesignFile>>, File(<<LBrace>>)),
     Put(RootOnly, <<DesignFile>>, Dir),
     Put(RootOnly, <<"output">>, File(<<>>))}

RtIdle ==
    rt = [design |-> JObj(<<>>), path |-> <<>>, pc |-> "start", text |-> <<>>,
          value |-> NoValue, error |-> NoErr]

JsonInit ==
    /\ fs \in JsonFileSystems
    /\ \E d \in Designs, path \in DesignPaths :
         rt = [design |-> d, path |-> path, pc |-> "start", text |-> <<>>,
               value |-> NoValue, error |-> NoErr]

\* await saveJson(result, options.output)
CallSaveJson ==
    /\ rt.pc = "start"
    /\ LET w == SaveJson(fs, rt.design, rt.path)
       IN  /\ fs' = w.fs
           /\ rt' = IF w.ok THEN [rt EXCEPT !.pc = "saved"]
                    ELSE [rt EXCEPT !.pc = "failed", !.error = WriteFailed]
    /\ UNCHANGED <<exVars, svcVars, prVars, save, cliVars, twoVars, rfVars>>

\* const designContent = await readFile(options.design)
CallReadFile ==
    /\ rt.pc = "saved"
    /\ LET r == ReadFile(fs, rt.path)
       IN  rt' = IF r.ok THEN [rt EXCEPT !.pc = "read", !.text = r.text]
                 ELSE [rt EXCEPT !.pc = "failed", !.error = r.error]
    /\ UNCHANGED <<exVars, svcVars, prVars, fsVars, cliVars, twoVars, rfVars>>

\* const design = JSON.parse(designContent)
ParseDesign ==
    /\ rt.pc = "read"
    /\ LET r == JsonParse(rt.text)
       IN  rt' = IF r.ok THEN [rt EXCEPT !.pc = "parsed", !.value = r.val]
                 ELSE [rt EXCEPT !.pc = "failed", !.error = Err(SyntaxError)]
    /\ UNCHANGED <<exVars, svcVars, prVars, fsVars, cliVars, twoVars, rfVars>>

JsonNext ==
    \/ CallSaveJson
    \/ CallReadFile
    \/ ParseDesign

\* C15: a design written with saveJson, read back with readFile and parsed
\* with JSON.parse is the design that was written, field for field; once
\* saveJson has returned, the reading and the parsing do not fail.
C15_DesignRoundTrip ==
    /\ rt.pc = "parsed" => rt.value = rt.design
    /\ rt.pc = "failed" => rt.error = WriteFailed

\* A design with a component list holding a component and a string with a
\* quote in it has made the round trip, over an older design file.
C15_Witness ==
    /\ rt.pc = "parsed" /\ IsFile(fs, rt.path) /\ Len(rt.path) = 2
    /\ Len(rt.design.members) = 1
    /\ rt.design.members[1].value.kind = "array"
    /\ Len(rt.design.members[1].value.members) = 2
    /\ rt.design.members[1].value.members[1].value = JStr(<<Quote>>)
    /\ rt.design.members[1].value.members[2].value = JObj(<<>>)

(***************************************************************************)
(* The commands (SpecCli).  A command's action is an async function whose  *)
(* body is one try block: its steps run in program order, each awaited,    *)
(* and the catch block prints the error and calls process.exit(1).  A      *)
(* script is the sequence of the steps of one invocation, by the arguments *)
(* and, for `generate`, by what the user answers.                          *)
(***************************************************************************)
Step(kind, svc, op) == [kind |-> kind, svc |-> svc, op |-> op]

\* if (!x) { spinner.fail(...); process.exit(1) }
Require(present) == Step("require", "", IF present THEN "ok" ELSE "missing")

\* index.ts, `workflow`
WorkflowScriptSaveFirst ==
    << Step("construct", "gemini", "GeminiService"),
       Step("call", "gemini", "generateDesign"),
       Step("construct", "claude", "ClaudeService"),
       Step("write", "", "saveOutput"),
       Step("call", "claude", "generateCode") >>

WorkflowScript ==
    << Step("construct", "gemini", "GeminiService"),
       Step("call", "gemini", "generateDesign"),
       Step("construct", "claude", "ClaudeService"),
       Step("call", "claude", "generateCode"),
       Step("write", "", "saveOutput") >>

\* commands/design.ts
DesignScript(inv) ==
    << Step("construct", "gemini", "GeminiService") >> \o
    CASE inv.action = "generate" ->
           << Require(inv.input), Step("call", "gemini", "generateDesign"),
              Step("write", "", "saveJson") >>
      [] inv.action = "analyze" ->
           << Require(inv.input), Step("call", "gemini", "analyzeImage"),
              Step("write", "", "saveJson") >>
      [] inv.action = "refine" ->
           << Require(inv.input /\ inv.design), Step("read", "", "readFileSync"),
              Step("parse", "", "JSON.parse"), Step("call", "gemini", "refineDesign"),
              Step("write", "", "saveJson") >>
      [] OTHER -> << Require(FALSE) >>

\* commands/code.ts
CodeScript(inv) ==
    << Step("construct", "claude", "ClaudeService") >> \o
    CASE inv.action = "generate" ->
           << Require(inv.design), Step("read", "", "readFile"),
              Step("parse", "", "JSON.parse"), Step("call", "claude", "generateCode"),
              Step("write", "", "saveOutput") >>
      [] inv.action = "refactor" ->
           << Require(inv.code /\ inv.instructions), Step("read", "", "readFile"),
              Step("call", "claude", "refactorCode"), Step("write", "", "writeFileSync") >>
      [] inv.action = "add-feature" ->
           << Require(inv.code /\ inv.feature), Step("read", "", "readFile"),
              Step("call", "claude", "addFeature"), Step("write", "", "saveOutput") >>
      [] OTHER -> << Require(FALSE) >>

\* commands/generate.ts
GenerateScript(inv) ==
    << Step("ask", "", "inputType"), Step("construct", "gemini", "GeminiService") >> \o
    (IF inv.inputType = "text"
     THEN << Step("ask", "", "prompt"), Step("call", "gemini", "generateDesign") >>
     ELSE << Step("ask", "", "imagePath"), Step("call", "gemini", "analyzeImage") >>) \o
    << Step("ask", "", "wantRefine") >> \o
    (IF inv.wantRefine
     THEN << Step("ask", "", "feedback"), Step("call", "gemini", "refineDesign") >>
     ELSE << >>) \o
    << Step("write", "", "saveJson"), Step("ask", "", "generateCode") >> \o
    (IF inv.generateCode
     THEN << Step("ask", "", "framework"), Step("construct", "claude", "ClaudeService"),
             Step("call", "claude", "generateCode"), Step("write", "", "saveOutput") >>
     ELSE << >>)

Script(inv) ==
    CASE inv.cmd = "workflow" -> WorkflowScript
      [] inv.cmd = "design"   -> DesignScript(inv)
      [] inv.cmd = "code"     -> CodeScript(inv)
      [] inv.cmd = "generate" -> GenerateScript(inv)

\* The invocations: the command, its action argument, which options are
\* given, and the answers the user will give to `generate`.
NoArgs ==
    [cmd |-> "", action |-> "", input |-> FALSE, design |-> FALSE, code |-> FALSE,
     instructions |-> FALSE, feature |-> FALSE, inputType |-> "text",
     wantRefine |-> FALSE, generateCode |-> FALSE]

Invocations ==
    {[NoArgs EXCEPT !.cmd = "workflow", !.input = TRUE]}
    \cup {[NoArgs EXCEPT !.cmd = "design", !.action = a, !.input = i, !.design = d] :
             a \in {"generate", "analyze", "refine", "publish"}, i \in BOOLEAN, d \in BOOLEAN}
    \cup {[NoArgs EXCEPT !.cmd = "code", !.action = a, !.design = d, !.code = c,
                         !.instructions = i, !.feature = f] :
             a \in {"generate", "refactor", "add-feature", "publish"},
             d \in BOOLEAN, c \in BOOLEAN, i \in BOOLEAN, f \in BOOLEAN}
    \cup {[NoArgs EXCEPT !.cmd = "generate", !.inputType = t, !.wantRefine = r,
                         !.generateCode = g] :
             t \in {"text", "image"}, r \in BOOLEAN, g \in BOOLEAN}


\* An event of the run: step i of the script started, went well or failed.
Event(i, st, what) == [step |-> i, kind |-> st.kind, svc |-> st.svc, op |-> st.op, what |-> what]

CliIdle ==
    cli = [inv |-> NoArgs, pc |-> 1, inFlight |-> {}, exited |-> FALSE, status |-> 0,
           log |-> << >>]

CliInit ==
    \E inv \in Invocations :
        cli = [inv |-> inv, pc |-> 1, inFlight |-> {}, exited |-> FALSE, status |-> 0,
               log |-> << >>]

CliRunning == ~cli.exited /\ cli.pc <= Len(Script(cli.inv))
CliStep == Script(cli.inv)[cli.pc]
Started(c, i) == \E k \in DOMAIN c.log : c.log[k].step = i

\* The step went well: the function goes on with the next statement.
Advance(c, ev) ==
    [c EXCEPT !.pc = ev.step + 1, !.inFlight = @ \ {ev.step}, !.log = Append(@, ev)]

\* The step threw and the error is swallowed: the function goes on.
CatchAndGoOn(c, ev) ==
    [c EXCEPT !.pc = ev.step + 1, !.inFlight = @ \ {ev.step}, !.log = Append(@, ev)]

\* The step threw: catch (error) { ...; process.exit(1) }
Catch(c, ev) ==
    [c EXCEPT !.exited = TRUE, !.status = 1, !.inFlight = {}, !.log = Append(@, ev)]

\* A service method is called and not awaited: the function goes on.
BeginNotAwaited(c, ev) ==
    [c EXCEPT !.pc = ev.step + 1, !.inFlight = @ \cup {ev.step}, !.log = Append(@, ev)]

\* await service.method(...): the call is in flight and the function is
\* suspended at the step.
Begin(c, ev) == [c EXCEPT !.inFlight = @ \cup {ev.step}, !.log = Append(@, ev)]

\* How step i ends.
Outcome(c, i, ok) ==
    LET st == Script(c.inv)[i]
    IN  IF ok THEN Advance(c, Event(i, st, "ok")) ELSE Catch(c, Event(i, st, "fail"))

\* if (!options.x) { spinner.fail(...); process.exit(1) }, and the default
\* case of the switch
CheckArguments ==
    /\ CliRunning /\ CliStep.kind = "require"
    /\ cli' = Outcome(cli, cli.pc, CliStep.op = "ok")
    /\ UNCHANGED <<exVars, svcVars, prVars, fsVars, jsonVars, twoVars, rfVars>>

\* new GeminiService() / new ClaudeService(), with their dynamic import
Construct ==
    /\ CliRunning /\ CliStep.kind = "construct"
    /\ \E ok \in BOOLEAN : cli' = Outcome(cli, cli.pc, ok)
    /\ UNCHANGED <<exVars, svcVars, prVars, fsVars, jsonVars, twoVars, rfVars>>

\* readFile(options.design) / fs.readFileSync, and JSON.parse of what was read
ReadInput ==
    /\ CliRunning /\ CliStep.kind \in {"read", "parse"}
    /\ \E ok \in BOOLEAN : cli' = Outcome(cli, cli.pc, ok)
    /\ UNCHANGED <<exVars, svcVars, prVars, fsVars, jsonVars, twoVars, rfVars>>

\* await inquirer.prompt([...])
Ask ==
    /\ CliRunning /\ CliStep.kind = "ask"
    /\ \E ok \in BOOLEAN : cli' = Outcome(cli, cli.pc, ok)
    /\ UNCHANGED <<exVars, svcVars, prVars, fsVars, jsonVars, twoVars, rfVars>>

\* await gemini.generateDesign(...) and the like: the call starts
StartCall ==
    /\ CliRunning /\ CliStep.kind = "call" /\ ~Started(cli, cli.pc)
    /\ cli' = Begin(cli, Event(cli.pc, CliStep, "start"))
    /\ UNCHANGED <<exVars, svcVars, prVars, fsVars, jsonVars, twoVars, rfVars>>

\* a call in flight returns its value or throws
EndCall ==
    /\ ~cli.exited
    /\ \E i \in cli.inFlight, ok \in BOOLEAN : cli' = Outcome(cli, i, ok)
    /\ UNCHANGED <<exVars, svcVars, prVars, fsVars, jsonVars, twoVars, rfVars>>

\* await saveOutput(...) / saveJson(...) / fs.writeFileSync(options.code, ...)
WriteFiles ==
    /\ CliRunning /\ CliStep.kind = "write"
    /\ \E ok \in BOOLEAN : cli' = Outcome(cli, cli.pc, ok)
    /\ UNCHANGED <<exVars, svcVars, prVars, fsVars, jsonVars, twoVars, rfVars>>

\* the action returns and the process ends with status 0
Finish ==
    /\ ~cli.exited /\ cli.inFlight = {} /\ cli.pc > Len(Script(cli.inv))
    /\ cli' = [cli EXCEPT !.exited = TRUE, !.status = 0]
    /\ UNCHANGED <<exVars, svcVars, prVars, fsVars, jsonVars, twoVars, rfVars>>

CliNext ==
    \/ CheckArguments
    \/ Construct
    \/ ReadInput
    \/ Ask
    \/ StartCall
    \/ EndCall
    \/ WriteFiles
    \/ Finish

(***************************************************************************)
(* Properties of the commands (SpecCli).                                   *)
(***************************************************************************)
Events == DOMAIN cli.log
CallStarts(svc) ==
    {k \in Events : cli.log[k].kind = "call" /\ cli.log[k].what = "start" /\ cli.log[k].svc = svc}
\* The call that started at event k has ended, well or not, before event j.
EndedBefore(k, j) ==
    \E e \in Events : k < e /\ e < j /\ cli.log[e].step = cli.log[k].step
\* The call of service svc returned its value before event j.
ReturnedBefore(svc, j) ==
    \E e \in Events :
        /\ e < j /\ cli.log[e].kind = "call" /\ cli.log[e].svc = svc /\ cli.log[e].what = "ok"

DesignBeforeCode ==
    \A d \in CallStarts("gemini"), c \in CallStarts("claude") : EndedBefore(d, c)
OneAtATime == Cardinality(cli.inFlight) <= 1

\* C12 as stated: a command makes at most one call to the design model and
\* at most one to the code model, the design call first, never two at once.
C12_OneDesignCallOneCodeCall ==
    /\ Cardinality(CallStarts("gemini")) <= 1
    /\ Cardinality(CallStarts("claude")) <= 1
    /\ DesignBeforeCode
    /\ OneAtATime

\* C12 amended: a command makes at most one call to the code model and at
\* most one to the design model, or two when `generate` refines (the call
\* of refineDesign, after the first design call has returned); every design
\* call has ended before the code call starts, and no two calls are in
\* flight at once.
C12_DesignCallsThenOneCodeCall ==
    /\ Cardinality(CallStarts("claude")) <= 1
    /\ Cardinality(CallStarts("gemini")) <= 2
    /\ \A a \in CallStarts("gemini"), b \in CallStarts("gemini") :
          a < b => /\ cli.inv.cmd = "generate" /\ cli.inv.wantRefine
                   /\ cli.log[b].op = "refineDesign"
                   /\ ReturnedBefore("gemini", b)
    /\ DesignBeforeCode
    /\ OneAtATime

\* `generate` with a refinement and the code step has run to its end.
C12_Witness ==
    /\ cli.inv.cmd = "generate" /\ cli.exited /\ cli.status = 0
    /\ Cardinality(CallStarts("gemini")) = 2 /\ Cardinality(CallStarts("claude")) = 1

\* C13: in `workflow` the code-model call starts only after the design call
\* has returned, and nothing is written to the output directory before the
\* code-model call has returned.
C13_WorkflowOrder ==
    cli.inv.cmd = "workflow"
        => /\ \A c \in CallStarts("claude") : ReturnedBefore("gemini", c)
           /\ \A w \in Events : cli.log[w].kind = "write" => ReturnedBefore("claude", w)

\* `workflow` has run to its end: design call, code call, saveOutput.
C13_Witness ==
    /\ cli.inv.cmd = "workflow" /\ cli.exited /\ cli.status = 0
    /\ \E w \in Events : cli.log[w].kind = "write" /\ cli.log[w].what = "ok"

Failures == {k \in Events : cli.log[k].what = "fail"}

\* C14: in `workflow`, `design` and `code` a step that fails is the last
\* thing the command does and the process has exited with status 1; no step
\* is started a second time; the process exits with status 1 only after a
\* failure.
C14_ErrorsAreTerminal ==
    cli.inv.cmd \in {"workflow", "design", "code"}
        => /\ \A k \in Failures : k = Len(cli.log) /\ cli.exited /\ cli.status = 1
           /\ \A j \in Events, k \in Events :
                 (j < k /\ cli.log[j].step = cli.log[k].step)
                    => cli.log[j].what = "start" /\ cli.log[k].what # "start"
           /\ \A j \in Events, k \in Events : j < k => cli.log[j].step <= cli.log[k].step
           /\ (cli.exited /\ cli.status = 1) => Failures # {}
           /\ (cli.exited /\ cli.status = 0) => Failures = {}

\* The design call of `workflow` failed: the process has exited with
\* status 1 before the code service was even built.
C14_Witness ==
    /\ cli.inv.cmd = "workflow" /\ cli.exited /\ cli.status = 1
    /\ Len(cli.log) = 3 /\ cli.log[3].what = "fail" /\ cli.log[3].op = "generateDesign"

(***************************************************************************)
(* Two invocations on one machine (SpecTwo): two processes, each in        *)
(* callClaudeCode on the delegated path, share os.tmpdir() and the clock.  *)
(* A prompt file is named after Date.now() at the time of the call.        *)
(***************************************************************************)
MaxClock == 2

TwoProcs == {1, 2}
PromptOf(p) == IF p = 1 THEN "prompt of process 1" ELSE "prompt of process 2"
NoFile == << >>
NoText == "nothing read"

\* path.join(os.tmpdir(), `d2c-prompt-${Date.now()}.txt`)
PromptFileAt(now) == <<"d2c-prompt-", now, ".txt">>

ProcStart == [pc |-> "start", file |-> NoFile, read |-> NoText, result |-> "none"]

TwoInit ==
    /\ clock = 0
    /\ tmp = << >>
    /\ procs = [p \in TwoProcs |-> ProcStart]

TmpWrite(t, name, text) == [n \in DOMAIN t \cup {name} |-> IF n = name THEN text ELSE t[n]]
TmpUnlink(t, name) ==
    [ok |-> name \in DOMAIN t, tmp |-> [n \in DOMAIN t \ {name} |-> t[n]]]

\* A millisecond passes.
Tick ==
    /\ clock < MaxClock
    /\ clock' = clock + 1
    /\ UNCHANGED <<exVars, svcVars, prVars, fsVars, cliVars, jsonVars, rfVars, tmp, procs>>

\* const promptFile = ...Date.now()...; fs.writeFileSync(promptFile, prompt);
\* execAsync(`claude --print ... < "${promptFile}"`) starts the shell
WritePromptFile(p) ==
    /\ procs[p].pc = "start"
    /\ tmp' = TmpWrite(tmp, PromptFileAt(clock), PromptOf(p))
    /\ procs' = [procs EXCEPT ![p].pc = "exec", ![p].file = PromptFileAt(clock)]
    /\ UNCHANGED <<exVars, svcVars, prVars, fsVars, cliVars, jsonVars, rfVars, clock>>

\* The shell opens the prompt file for the agent's standard input: the
\* agent reads what the file holds then; without the file the shell fails
\* and execAsync rejects.
ChildOpensPromptFile(p) ==
    /\ procs[p].pc = "exec"
    /\ procs' = IF procs[p].file \in DOMAIN tmp
                THEN [procs EXCEPT ![p].pc = "primary", ![p].read = tmp[procs[p].file]]
                ELSE [procs EXCEPT ![p].pc = "secondary"]
    /\ UNCHANGED <<exVars, svcVars, prVars, fsVars, cliVars, jsonVars, rfVars, clock, tmp>>

\* execAsync settles: resolved (unlink at line 52, then return stdout or
\* throw stderr) or rejected; a throw goes on to the secondary invocation.
PrimaryEnds(p) ==
    /\ procs[p].pc = "primary"
    /\ \E how \in {"stdout", "stderr", "rejected"} :
         LET u == TmpUnlink(tmp, procs[p].file)
         IN  IF how = "rejected"
             THEN /\ procs' = [procs EXCEPT ![p].pc = "secondary"]
                  /\ UNCHANGED tmp
             ELSE /\ tmp' = u.tmp
                  /\ procs' = IF how = "stdout" /\ u.ok
                              THEN [procs EXCEPT ![p].pc = "done", ![p].result = "returned"]
                              ELSE [procs EXCEPT ![p].pc = "secondary"]
    /\ UNCHANGED <<exVars, svcVars, prVars, fsVars, cliVars, jsonVars, rfVars, clock>>

\* runClaudeCodeInteractive settles: unlink at line 63 and return, or unlink
\* at line 66 and throw; an unlink that finds no file throws ENOENT.
SecondaryEnds(p) ==
    /\ procs[p].pc = "secondary"
    /\ \E ok \in BOOLEAN :
         LET u == TmpUnlink(tmp, procs[p].file)
         IN  /\ tmp' = u.tmp
             /\ procs' = [procs EXCEPT ![p].pc = "done",
                             ![p].result = IF ~u.ok THEN "ENOENT"
                                           ELSE IF ok THEN "returned" ELSE "setup instructions"]
    /\ UNCHANGED <<exVars, svcVars, prVars, fsVars, cliVars, jsonVars, rfVars, clock>>

TwoNext ==
    \/ Tick
    \/ \E p \in TwoProcs : WritePromptFile(p)
    \/ \E p \in TwoProcs : ChildOpensPromptFile(p)
    \/ \E p \in TwoProcs : PrimaryEnds(p)
    \/ \E p \in TwoProcs : SecondaryEnds(p)

\* C18: the prompt file of one process is never the file the other writes,
\* reads or deletes: the two files differ, and an agent reads the prompt of
\* its own process, however the steps interleave.
C18_PromptFilesNeverShared ==
    \A p \in TwoProcs, q \in TwoProcs :
        p # q => /\ (procs[p].file # NoFile /\ procs[q].file # NoFile)
                      => procs[p].file # procs[q].file
                 /\ procs[p].read \in {NoText, PromptOf(p)}

(***************************************************************************)
(* `code refactor` (SpecRefactor): the action of codeCommand for the       *)
(* argument refactor, on a small file system.  An action is the code that  *)
(* runs from one await to the next; process.exit ends the process where it *)
(* is called.  The prompt file of callClaudeCode lives in os.tmpdir() and  *)
(* is followed under Spec; fs holds the files the options can name.        *)
(***************************************************************************)
CodeFile == "app.tsx"
OtherFile == "lib.ts"
CodeOptions == {Undefined, CodeFile}
InstructionOptions == {Undefined, "", "use hooks"}

\* What the code file is before the command runs: missing, a file with
\* some text, a directory; another file lies beside it.
RefactorFileSystems ==
    LET base == Put(RootOnly, <<OtherFile>>, File(<<Prose>>))
    IN  {base, Put(base, <<CodeFile>>, Dir)}
        \cup {Put(base, <<CodeFile>>, File(t)) : t \in {<<>>, <<Prose>>, <<LBrace, RBrace>>}}

\* What comes back to callAPI: the agent's output (callClaudeCode) or the
\* first content block of the message (a text block or another block), or
\* the error the call throws.
Replies ==
    [kind : {"text"}, text : RespTexts]
    \cup {[kind |-> "tool_use", text |-> <<>>], [kind |-> "throw", text |-> <<>>]}

\* callAPI(prompt): what callClaudeCode returns, or the text of the first
\* content block, '' when the block is not a text block.
CallAPI(c, reply) ==
    IF reply.kind = "throw" THEN [ok |-> FALSE, text |-> <<>>]
    ELSE IF c.useClaudeCode THEN [ok |-> TRUE, text |-> reply.text]
    ELSE [ok |-> TRUE, text |-> IF reply.kind = "text" THEN reply.text ELSE <<>>]

RefactorCodeExtracting(c, reply) ==
    LET r == CallAPI(c, reply)
        m == BraceMatch(r.text)
    IN  IF r.ok /\ m.found THEN [r EXCEPT !.text = m.span] ELSE r

\* refactorCode(code, instructions): return this.callAPI(prompt)
RefactorCode(c, reply) == CallAPI(c, reply)

NoReply == [kind |-> "none", text |-> <<>>]

RfIdle ==
    rf = [code |-> Undefined, instructions |-> Undefined, pc |-> "start",
          status |-> Undefined, codeContent |-> <<>>, reply |-> NoReply,
          refactored |-> <<>>, before |-> RootOnly]

RfInit ==
    /\ fs \in RefactorFileSystems
    /\ \E code \in CodeOptions, instructions \in InstructionOptions :
         rf = [code |-> code, instructions |-> instructions, pc |-> "start",
               status |-> Undefined, codeContent |-> <<>>, reply |-> NoReply,
               refactored |-> <<>>, before |-> fs]

\* process.exit(1), from the check of the options or from the catch
ExitOne(r) == [r EXCEPT !.pc = "exited", !.status = "1"]

\* new ClaudeService(); case 'refactor': the check of the options, then
\* readFile(options.code) up to the await
RefactorBegin ==
    /\ rf.pc = "start"
    /\ claude' = ClaudeConstructor(env)
    /\ IF ~Truthy(rf.code) \/ ~Truthy(rf.instructions)
       THEN rf' = ExitOne(rf)
       ELSE LET r == ReadFile(fs, <<rf.code>>)
            IN  rf' = IF r.ok THEN [rf EXCEPT !.pc = "read", !.codeContent = r.text]
                      ELSE ExitOne(rf)
    /\ UNCHANGED <<exVars, env, gemini, req, io, cc, tmpFiles, requests, prVars, fsVars,
                   cliVars, jsonVars, twoVars>>

\* claude.refactorCode(codeContent, options.instructions) up to its await
RefactorCall ==
    /\ rf.pc = "read"
    /\ rf' = [rf EXCEPT !.pc = "awaiting"]
    /\ UNCHANGED <<exVars, svcVars, prVars, fsVars, cliVars, jsonVars, twoVars>>

\* the call returns or throws; then await import('fs'), or the catch
RefactorReturn ==
    /\ rf.pc = "awaiting"
    /\ \E reply \in Replies :
         /\ claude.useClaudeCode => reply.kind # "tool_use"
         /\ LET r == RefactorCode(claude, reply)
            IN  rf' = IF r.ok
                      THEN [rf EXCEPT !.pc = "returned", !.reply = reply, !.refactored = r.text]
                      ELSE [ExitOne(rf) EXCEPT !.reply = reply]
    /\ UNCHANGED <<exVars, svcVars, prVars, fsVars, cliVars, jsonVars, twoVars>>

\* fs.writeFileSync(options.code, refactored); spinner.succeed; the action
\* ends and the process exits with 0
RefactorWrite ==
    /\ rf.pc = "returned"
    /\ LET w == WriteFileSync(fs, <<rf.code>>, rf.refactored)
       IN  /\ fs' = w.fs
           /\ rf' = IF w.ok THEN [rf EXCEPT !.pc = "exited", !.status = "0"]
                    ELSE ExitOne(rf)
    /\ UNCHANGED <<exVars, svcVars, prVars, save, cliVars, jsonVars, twoVars>>

RfNext ==
    \/ RefactorBegin
    \/ RefactorCall
    \/ RefactorReturn
    \/ RefactorWrite

RfChanged == {p \in DOMAIN fs \cup DOMAIN rf.before : At(fs, p) # At(rf.before, p)}
RfExited == rf.pc = "exited"
OptionsGiven == Truthy(rf.code) /\ Truthy(rf.instructions)
CodeReadable == OptionsGiven /\ ReadFile(rf.before, <<rf.code>>).ok
CallFailed == rf.reply.kind = "throw"
\* the response text the service returned
ResponseText == IF rf.reply.kind = "text" THEN rf.reply.text ELSE <<>>

\* C24: `code refactor` changes only the file --code names, and only after
\* the call to the code model has returned: with an option missing, a file
\* that cannot be read or a call that fails the files are as they were and
\* the process exits with 1; when it exits with 0 the file holds the
\* response text as the service returned it, braces and prose alike.
C24_RefactorWritesResponseOnly ==
    /\ RfChanged \subseteq {<<rf.code>>}
    /\ fs # rf.before => RfExited /\ rf.status = "0"
    /\ (RfExited /\ (~OptionsGiven \/ ~CodeReadable \/ CallFailed))
          => rf.status = "1" /\ fs = rf.before
    /\ (RfExited /\ rf.status = "0")
          => /\ rf.reply.kind \in {"text", "tool_use"}
             /\ At(fs, <<rf.code>>) = File(ResponseText)
    /\ rf.pc \in {"start", "read", "awaiting"} => rf.reply = NoReply

\* The agent answered with prose around a pair of braces; the file held a
\* pair of braces and now holds the whole answer, the file beside it is as
\* it was.
C24_Witness ==
    /\ RfExited /\ rf.status = "0" /\ claude.useClaudeCode
    /\ rf.reply.text = <<Prose, LBrace, RBrace>>
    /\ At(rf.before, <<CodeFile>>) = File(<<LBrace, RBrace>>)
    /\ At(fs, <<CodeFile>>) = File(<<Prose, LBrace, RBrace>>)
    /\ At(fs, <<OtherFile>>) = At(rf.before, <<OtherFile>>)

(***************************************************************************)
(* The specifications.                                                     *)
(***************************************************************************)
TwoIdle == clock = 0 /\ tmp = << >> /\ procs = << >>

EnvFixed == env = [GEMINI_API_KEY |-> Undefined, ANTHROPIC_API_KEY |-> Undefined,
                   GOOGLE_CLOUD_PROJECT |-> Undefined, gcloudLogin |-> FALSE]
ExFixed == exText = <<>> /\ ExIdle

InitExtract == ExInit /\ EnvFixed /\ SvcIdle /\ PrIdle /\ SaveIdle /\ CliIdle /\ RtIdle /\ TwoIdle /\ RfIdle
SpecExtract == InitExtract /\ [][ExNext]_vars

Init == SvcInit /\ ExFixed /\ PrIdle /\ SaveIdle /\ CliIdle /\ RtIdle /\ TwoIdle /\ RfIdle
Next == SvcNext
Spec == Init /\ [][Next]_vars

InitPrompt == PrInit /\ EnvFixed /\ SvcIdle /\ ExFixed /\ SaveIdle /\ CliIdle /\ RtIdle /\ TwoIdle /\ RfIdle
SpecPrompt == InitPrompt /\ [][PrNext]_vars

InitSave == SaveInit /\ EnvFixed /\ SvcIdle /\ ExFixed /\ PrIdle /\ CliIdle /\ RtIdle /\ TwoIdle /\ RfIdle
SpecSave == InitSave /\ [][SaveNext]_vars

\* The delegated path alone, with the steps the process itself takes (the
\* exec timeout, the timer, the continuation after the await) taken when
\* they can be; nothing makes the agent exit or write.
EnvDelegated == env.ANTHROPIC_API_KEY \in {Undefined, ""} /\ env.GEMINI_API_KEY = Undefined
                /\ env.GOOGLE_CLOUD_PROJECT = Undefined /\ ~env.gcloudLogin
InitLive == Init /\ EnvDelegated
ExecTimeout == CcPrimaryRejected /\ cc'.primary = "timeout"
NextLive ==
    \/ NewClaudeService
    \/ \E op \in ClaudeOps : StartClaude(op)
    \/ CcPrimaryResolved
    \/ CcPrimaryRejected
    \/ SecData
    \/ SecClose
    \/ SecError
    \/ SecTimer
    \/ CcAfterSecondary
SpecLive ==
    /\ InitLive /\ [][NextLive]_vars
    /\ WF_vars(ExecTimeout) /\ WF_vars(SecTimer) /\ WF_vars(CcAfterSecondary)

InitCli == CliInit /\ EnvFixed /\ SvcIdle /\ ExFixed /\ PrIdle /\ SaveIdle /\ RtIdle /\ TwoIdle /\ RfIdle
SpecCli == InitCli /\ [][CliNext]_vars

InitJson == JsonInit /\ EnvFixed /\ SvcIdle /\ ExFixed /\ PrIdle /\ SaveArgsIdle /\ CliIdle /\ TwoIdle /\ RfIdle
SpecJson == InitJson /\ [][JsonNext]_vars

InitTwo == TwoInit /\ EnvFixed /\ SvcIdle /\ ExFixed /\ PrIdle /\ SaveIdle /\ CliIdle /\ RtIdle /\ RfIdle
SpecTwo == InitTwo /\ [][TwoNext]_vars

\* `code refactor` with and without ANTHROPIC_API_KEY.
EnvOfClaude == env.GEMINI_API_KEY = Undefined /\ env.GOOGLE_CLOUD_PROJECT = Undefined
               /\ ~env.gcloudLogin
InitRefactor == RfInit /\ SvcInit /\ EnvOfClaude /\ ExFixed /\ PrIdle /\ SaveArgsIdle /\ CliIdle
                /\ RtIdle /\ TwoIdle
SpecRefactor == InitRefactor /\ [][RfNext]_vars

====
